---- MODULE Spec2Model ----
(***************************************************************************)
(* A model of yauil's store projection (src/unnamed/part_000, the store    *)
(* module and its test) and of its DOM reconciliation layer                *)
(* (src/src/dom.ts).                                                       *)
(*                                                                         *)
(* JavaScript values are records [t, v]; objects and arrays live in a heap *)
(* indexed by address, so identity (===) and aliasing are explicit.        *)
(* Reactive objects (signals and stores, the proxies' targets) live in a   *)
(* second table indexed by id.                                             *)
(***************************************************************************)
EXTENDS Integers, Sequences, FiniteSets, TLC

\* ------------------------------------------------------------------ bounds
MaxObjs == 5    \* heap addresses
MaxRx   == 3    \* reactive objects (the root store and materialized children)
MaxLen  == 2    \* longest array handed to createStore / set
MaxNum  == 0    \* numbers used as object entries: 0..MaxNum (and null)
MaxElem == 1    \* numbers used as array elements: 0..MaxElem

\* ------------------------------------------------------------ JS values
Num(n)  == [t |-> "num", v |-> n]
Null    == [t |-> "null", v |-> 0]
Undef   == [t |-> "undef", v |-> 0]
Ref(a)  == [t |-> "ref", v |-> a]

Nums    == {Num(n) : n \in 0..MaxNum}
Prims   == Nums \cup {Null}
Elems   == {Num(n) : n \in 0..MaxElem}

\* typeof value === "object" && value !== null
IsObject(x) == x.t = "ref"

\* Property keys.  Index keys are the decimal strings of the indices.
IdxNames == <<"0", "1", "2", "3", "4", "5">>
IdxKey(i) == IdxNames[i + 1]
IdxKeys  == {IdxKey(i) : i \in 0..MaxLen}
IsIdx(k) == k \in {IdxNames[i] : i \in 1..Len(IdxNames)}
IdxOf(k) == CHOOSE i \in 0..(Len(IdxNames) - 1) : IdxNames[i + 1] = k
ObjKeys  == {"a", "b"}
LeafKeys == {"x"}

\* ---------------------------------------------------------------- sequences
SeqSet(s) == {s[i] : i \in 1..Len(s)}

\* ------------------------------------------------------------------- heap
\* One heap cell: a plain object or an array.  ent holds the own enumerable
\* properties [k, v] in for-in order, len the array length.
NoObj == [used |-> FALSE, arr |-> FALSE, ent |-> <<>>, len |-> 0]

\* the object literal { ks[1]: vs[1], ... }
MkObj(ks, vs) ==
  [used |-> TRUE, arr |-> FALSE, ent |-> [i \in 1..Len(ks) |-> [k |-> ks[i], v |-> vs[i]]], len |-> 0]

\* the array literal [ vs[1], ... ]
MkArr(vs) ==
  [used |-> TRUE, arr |-> TRUE,
   ent |-> [i \in 1..Len(vs) |-> [k |-> IdxKey(i - 1), v |-> vs[i]]],
   len |-> Len(vs)]

\* the own enumerable keys, in for-in order
KeysOf(o) == [i \in 1..Len(o.ent) |-> o.ent[i].k]
HasKey(o, k) == \E i \in 1..Len(o.ent) : o.ent[i].k = k

\* o.hasOwnProperty(k)
HasOwn(o, k) == HasKey(o, k) \/ (o.arr /\ k = "length")

\* k in o   (own properties; prototype methods are outside the modelled keys)
HasProp(o, k) == HasOwn(o, k)

\* o[k]
GetProp(o, k) ==
  IF o.arr /\ k = "length" THEN Num(o.len)
  ELSE IF HasKey(o, k) THEN (CHOOSE e \in SeqSet(o.ent) : e.k = k).v
  ELSE Undef

\* OrdinaryOwnPropertyKeys: integer keys ascending, then string keys in
\* creation order.  Inserts a new entry e into the enumeration order s.
RECURSIVE KeyInsert(_, _)
KeyInsert(s, e) ==
  IF s = <<>> THEN <<e>>
  ELSE IF IsIdx(e.k) /\ (~IsIdx(Head(s).k) \/ IdxOf(e.k) < IdxOf(Head(s).k)) THEN <<e>> \o s
  ELSE <<Head(s)>> \o KeyInsert(Tail(s), e)

\* o[k] = x   (array length writes truncate; index writes extend the length)
PutProp(o, k, x) ==
  IF o.arr /\ k = "length" THEN
    [o EXCEPT !.len = x.v,
              !.ent = SelectSeq(@, LAMBDA e : ~IsIdx(e.k) \/ IdxOf(e.k) < x.v)]
  ELSE
    [o EXCEPT !.ent = IF HasKey(o, k)
                      THEN [i \in 1..Len(o.ent) |-> IF o.ent[i].k = k THEN [k |-> k, v |-> x] ELSE o.ent[i]]
                      ELSE KeyInsert(o.ent, [k |-> k, v |-> x]),
              !.len = IF o.arr /\ IsIdx(k) /\ IdxOf(k) >= o.len THEN IdxOf(k) + 1 ELSE o.len]

\* ------------------------------------------------------- reactive objects
\* A reactive object: the target of a store proxy, or a signal.
\*   value    : [$value]
\*   wbT, wbK : the one listener handler.get registers on a primitive child,
\*              (value) => target[$value][prop] = value; wbT = 0 when [$listeners] is empty
\*   children : the target's own enumerable string-keyed properties, in
\*              for-in order, each holding the id of the child reactive
NoRx == [kind |-> "none", value |-> Undef, wbT |-> 0, wbK |-> "a", children |-> <<>>]

VARIABLES heap, rx, emits, root, last

storeVars == <<heap, rx, emits, root, last>>

\* The DOM side: the node table, the children of the parent element, the
\* tracked output of the signal, cleanup counts, the last DOM call, and the
\* number of updateDOM calls made.
VARIABLES dom, kids, target, cleaned, dlast, updates
domVars == <<dom, kids, target, cleaned, dlast, updates>>

RxIds   == 1..MaxRx
Addrs   == 1..MaxObjs

FreeAddrs(h) == {a \in Addrs : ~h[a].used}
FreeAddr(h)  == CHOOSE a \in FreeAddrs(h) : \A b \in FreeAddrs(h) : a <= b
FreeIds(r)   == {i \in RxIds : r[i].kind = "none"}
FreeId(r)    == CHOOSE i \in FreeIds(r) : \A j \in FreeIds(r) : i <= j

ChildKeys(r) == [i \in 1..Len(r.children) |-> r.children[i].k]
\* target.hasOwnProperty(key), for the non-internal string keys
HasChild(r, key) == \E i \in 1..Len(r.children) : r.children[i].k = key
ChildOf(r, key)  == (CHOOSE c \in SeqSet(r.children) : c.k = key).id
\* a removal that leaves the child in place
DropChildKeeps(r, key) == r
\* delete target[key]
DropChild(r, key) == [r EXCEPT !.children = SelectSeq(@, LAMBDA c : c.k # key)]
\* target[key] = child   (key not yet an own property)
AddChild(r, key, id) == [r EXCEPT !.children = KeyInsert(@, [k |-> key, id |-> id])]

\* A world is the part of the state one call reads and writes, together
\* with the call's outcome: ret (the returned flag) and threw.
World(h, r) == [heap |-> h, rx |-> r, emits |-> [i \in RxIds |-> 0],
                ret |-> FALSE, threw |-> FALSE]

\* createSignal(value)
CreateSignal(x) == [kind |-> "signal", value |-> x, wbT |-> 0, wbK |-> "a", children |-> <<>>]

\* signal[$emit](): every listener runs once with the current value
Emit(w, id) ==
  LET r  == w.rx[id]
      w1 == [w EXCEPT !.emits[id] = @ + 1]
  IN IF r.wbT = 0 THEN w1
     ELSE [w1 EXCEPT !.heap[w1.rx[r.wbT].value.v] = PutProp(@, r.wbK, r.value)]

\* signalPrototype.set(value)
SignalSet(w, id, x) ==
  IF w.rx[id].value = x THEN [w EXCEPT !.ret = FALSE]
  ELSE [Emit([w EXCEPT !.rx[id].value = x], id) EXCEPT !.ret = TRUE]

\* hasChanged ||= rhs : the right-hand side runs only while hasChanged is false
OrAssignRuns(hasChanged) == ~hasChanged

RECURSIVE StoreSet(_, _, _)
RECURSIVE ReactiveSet(_, _, _)
RECURSIVE SetLoop1(_, _, _, _, _)
RECURSIVE SetLoop2(_, _, _, _, _)

\* this[key].set(x): the child is a store or a signal
ReactiveSet(w, id, x) ==
  IF w.rx[id].kind = "store" THEN StoreSet(w, id, x) ELSE SignalSet(w, id, x)

\* for (const key in this) { ... }   ks: the keys still to visit
SetLoop1(w, id, v, ks, hasChanged) ==
  IF w.threw THEN w
  ELSE IF ks = <<>> THEN [w EXCEPT !.ret = hasChanged]
  ELSE LET key == Head(ks) IN
    IF HasOwn(w.heap[v.v], key) THEN
      IF OrAssignRuns(hasChanged) THEN
        LET w1 == ReactiveSet(w, ChildOf(w.rx[id], key), GetProp(w.heap[v.v], key))
        IN SetLoop1(w1, id, v, Tail(ks), hasChanged \/ w1.ret)
      ELSE SetLoop1(w, id, v, Tail(ks), hasChanged)
    ELSE SetLoop1([w EXCEPT !.rx[id] = DropChild(@, key)], id, v, Tail(ks), TRUE)

\* for (const key in value) { ... }
SetLoop2(w, id, v, ks, hasChanged) ==
  IF w.threw THEN w
  ELSE IF ks = <<>> THEN [w EXCEPT !.ret = hasChanged]
  ELSE LET key == Head(ks) IN
    IF ~HasKey(w.heap[v.v], key) THEN SetLoop2(w, id, v, Tail(ks), hasChanged)
    ELSE
      LET w1  == IF HasChild(w.rx[id], key) /\ OrAssignRuns(hasChanged)
                 THEN LET r == ReactiveSet(w, ChildOf(w.rx[id], key), GetProp(w.heap[v.v], key))
                      IN [r EXCEPT !.ret = hasChanged \/ r.ret]
                 ELSE [w EXCEPT !.ret = hasChanged]
          hc2 == IF OrAssignRuns(w1.ret)
                 THEN w1.ret \/ GetProp(w1.heap[w1.rx[id].value.v], key) # GetProp(w1.heap[v.v], key)
                 ELSE w1.ret
      IN SetLoop2(w1, id, v, Tail(ks), hc2)

\* storePrototype.set, value already resolved
\* set that invokes the listeners whether or not anything changed
StoreSetAlwaysEmits(w, id, v) ==
  IF ~IsObject(v) THEN [w EXCEPT !.threw = TRUE]
  ELSE
    LET w1 == SetLoop1(w, id, v, ChildKeys(w.rx[id]), FALSE)
        w2 == IF w1.threw THEN w1 ELSE SetLoop2(w1, id, v, KeysOf(w1.heap[v.v]), w1.ret)
    IN IF w2.threw THEN w2
       ELSE [Emit([w2 EXCEPT !.rx[id].value = v], id) EXCEPT !.ret = w2.ret]

StoreSet(w, id, v) ==
  IF ~IsObject(v) THEN [w EXCEPT !.threw = TRUE]
  ELSE
    LET w1 == SetLoop1(w, id, v, ChildKeys(w.rx[id]), FALSE)
        w2 == IF w1.threw THEN w1 ELSE SetLoop2(w1, id, v, KeysOf(w1.heap[v.v]), w1.ret)
    IN IF w2.threw THEN w2
       ELSE LET w3 == [w2 EXCEPT !.rx[id].value = v]
            IN [(IF w2.ret THEN Emit(w3, id) ELSE w3) EXCEPT !.ret = w2.ret]

\* ------------------------------------------------------------ createStore
Fn == [t |-> "fn", v |-> 0]

\* typeof x
TypeOf(x) ==
  CASE x.t = "num"   -> "number"
    [] x.t = "undef" -> "undefined"
    [] x.t = "fn"    -> "function"
    [] OTHER         -> "object"     \* null, objects, arrays

\* typeof init !== "object" || init === null
\* the guard without its null test
CreateStoreThrowsUnlessObjectType(init) == TypeOf(init) # "object"

CreateStoreThrows(init) == TypeOf(init) # "object" \/ init = Null

\* the reactive object createStore(init) returns: a signal over init with storePrototype
NewStore(init) == [kind |-> "store", value |-> init, wbT |-> 0, wbK |-> "a", children |-> <<>>]

\* isSignal(x)
IsSignal(r) == r.kind \in {"signal", "store"}

\* ------------------------------------------------------------ the proxy
\* handler.get(target, prop) for a data key: the child is created on the
\* first read; ret tells whether the read resolved to a reactive.
ProxyGet(w, id, prop) ==
  LET t == w.rx[id]
      o == w.heap[t.value.v]
      c == FreeId(w.rx)
  IN IF HasChild(t, prop) THEN [w EXCEPT !.ret = TRUE]
     ELSE IF HasProp(o, prop) THEN
       LET value == GetProp(o, prop) IN
       IF IsObject(value)
       THEN [w EXCEPT !.rx[c] = NewStore(value), !.rx[id] = AddChild(@, prop, c), !.ret = TRUE]
       ELSE [w EXCEPT !.rx[c] = [CreateSignal(value) EXCEPT !.wbT = id, !.wbK = prop],
                      !.rx[id] = AddChild(@, prop, c), !.ret = TRUE]
     ELSE [w EXCEPT !.ret = FALSE]

\* handler.set(target, prop, value) for a non-internal key
\* a property write that notifies only when the child reported a change
ProxySetEmitsOnChange(w, id, prop, x) ==
  LET t  == w.rx[id]
      c  == FreeId(w.rx)
      w1 == IF HasChild(t, prop) THEN ReactiveSet(w, ChildOf(t, prop), x)
            ELSE [w EXCEPT !.rx[c] = CreateSignal(x), !.rx[id] = AddChild(@, prop, c), !.ret = TRUE]
  IN IF w1.threw THEN w1
     ELSE [(IF w1.ret THEN Emit(w1, id) ELSE w1) EXCEPT !.ret = TRUE]

ProxySet(w, id, prop, x) ==
  LET t  == w.rx[id]
      c  == FreeId(w.rx)
      w1 == IF HasChild(t, prop) THEN ReactiveSet(w, ChildOf(t, prop), x)
            ELSE [w EXCEPT !.rx[c] = CreateSignal(x), !.rx[id] = AddChild(@, prop, c)]
  IN IF w1.threw THEN w1 ELSE [Emit(w1, id) EXCEPT !.ret = TRUE]

\* --------------------------------------------------------------- inputs
\* An object literal is described entry by entry, in the order it is written:
\*   c = "val" : the primitive x;  c = "leaf" : a new object {x: x};
\*   c = "cur" : the entry the store's current value holds under the same key
FlatChoices == [c : {"val"}, x : Prims]
Choices == FlatChoices \cup [c : {"leaf"}, x : {Num(0)}] \cup [c : {"cur"}, x : {Undef}]
KeyOrders == {<<>>, <<"a">>, <<"b">>, <<"a", "b">>, <<"b", "a">>}
NestedOrders == {<<>>, <<"a">>, <<"b">>, <<"a", "b">>}

LeafCount(d) == Cardinality({i \in DOMAIN d : d[i].c = "leaf"})

\* evaluates the entries of a literal left to right; cur is the object "cur" reads
RECURSIVE BuildEntries(_, _, _, _)
BuildEntries(h, cur, ks, d) ==
  IF ks = <<>> THEN [heap |-> h, vals |-> <<>>]
  ELSE LET e  == d[1]
           a  == FreeAddr(h)
           h1 == IF e.c = "leaf" THEN [h EXCEPT ![a] = MkObj(<<"x">>, <<e.x>>)] ELSE h
           x  == CASE e.c = "leaf" -> Ref(a)
                   [] e.c = "cur"  -> GetProp(cur, Head(ks))
                   [] OTHER        -> e.x
           r  == BuildEntries(h1, cur, Tail(ks), [i \in 1..(Len(d) - 1) |-> d[i + 1]])
       IN [heap |-> r.heap, vals |-> <<x>> \o r.vals]

\* the heap after the literal is evaluated, and the reference to it
BuildObj(h, cur, ks, d) ==
  LET r == BuildEntries(h, cur, ks, d)
      a == FreeAddr(r.heap)
  IN [heap |-> [r.heap EXCEPT ![a] = MkObj(ks, r.vals)], v |-> Ref(a)]

BuildArr(h, vs) ==
  LET a == FreeAddr(h) IN [heap |-> [h EXCEPT ![a] = MkArr(vs)], v |-> Ref(a)]

ArrInputs == UNION {[1..n -> Elems] : n \in 0..MaxLen}

\* (array) => [...array, array.length]   (holes spread as undefined)
AppendLen(o) == [i \in 1..(o.len + 1) |->
                   IF i <= o.len THEN GetProp(o, IdxKey(i - 1)) ELSE Num(o.len)]

\* createStore(init)
CreateStore(w, init) ==
  IF CreateStoreThrows(init) THEN [w EXCEPT !.threw = TRUE]
  ELSE [w EXCEPT !.rx[FreeId(w.rx)] = NewStore(init), !.ret = TRUE]

\* -------------------------------------------------------------- actions
\* last records the call just made: its receiver, key, resolved argument and
\* outcome; had/cret (proxy write): the key had a child, what its set returned.
\* same: every reactive holds the value reference it held before the call.
NoCall == [op |-> "none", id |-> 0, key |-> "a", arg |-> Undef,
           ret |-> FALSE, threw |-> FALSE, had |-> FALSE, cret |-> FALSE, same |-> TRUE,
           lost |-> FALSE, kept |-> TRUE, differs |-> FALSE, frozen |-> TRUE]

StoreInit ==
  /\ heap = [a \in Addrs |-> NoObj]
  /\ rx = [i \in RxIds |-> NoRx]
  /\ emits = [i \in RxIds |-> 0]
  /\ root = 0
  /\ last = NoCall

\* Heap addresses are not observable, and objects that no reactive and no
\* caller can reach are reclaimed.  After each call the reachable objects are
\* renumbered in the order a traversal from the reactives (by id), then from
\* the call's argument, first meets them.
RefSeq(o) ==
  LET es == SelectSeq(o.ent, LAMBDA e : e.v.t = "ref")
  IN [i \in 1..Len(es) |-> es[i].v.v]
RECURSIVE Visit(_, _, _)
Visit(h, stack, seen) ==
  IF stack = <<>> THEN seen
  ELSE IF Head(stack) \in SeqSet(seen) THEN Visit(h, Tail(stack), seen)
  ELSE Visit(h, RefSeq(h[Head(stack)]) \o Tail(stack), Append(seen, Head(stack)))
RECURSIVE RootSeq(_, _, _)
RootSeq(r, l, i) ==
  IF i > MaxRx THEN (IF l.arg.t = "ref" THEN <<l.arg.v>> ELSE <<>>)
  ELSE (IF r[i].value.t = "ref" THEN <<r[i].value.v>> ELSE <<>>) \o RootSeq(r, l, i + 1)
NewAddr(ord, a) == CHOOSE i \in 1..Len(ord) : ord[i] = a
MoveVal(ord, x) == IF x.t = "ref" THEN Ref(NewAddr(ord, x.v)) ELSE x
MoveObj(ord, o) == [o EXCEPT !.ent = [i \in 1..Len(o.ent) |-> [k |-> o.ent[i].k, v |-> MoveVal(ord, o.ent[i].v)]]]
Collect(h, ord) == [a \in Addrs |-> IF a <= Len(ord) THEN MoveObj(ord, h[ord[a]]) ELSE NoObj]

\* (the \E over singletons evaluate the call's result once)
\* What a caller of store.set(v) can observe by comparing the moment before
\* the call with the moment after it.  A captured alias is a child that no
\* store holds any more.
Aliases == {i \in RxIds : rx[i].kind # "none" /\ i # root
                           /\ \A p \in RxIds : \A c \in SeqSet(rx[p].children) : c.id # i}
IsSetOf(l) == l.op = "set" /\ l.arg.t = "ref"
\* some materialized child's key is not an own key of v
LostKey(w, l) ==
  IsSetOf(l) /\ \E k \in SeqSet(ChildKeys(rx[l.id])) : ~HasOwn(w.heap[l.arg.v], k)
\* v and the previous underlying object differ in at least one own key
Differs(w, l) ==
  /\ IsSetOf(l)
  /\ l.arg # rx[l.id].value
  /\ \/ SeqSet(heap[rx[l.id].value.v].ent) # SeqSet(w.heap[l.arg.v].ent)
     \/ heap[rx[l.id].value.v].len # w.heap[l.arg.v].len
\* the previous underlying object holds what it held before the call
Frozen(w, l) ==
  (l.op = "set" /\ l.arg # rx[l.id].value) =>
     w.heap[rx[l.id].value.v] = heap[rx[l.id].value.v]
\* no captured alias was written or notified during the call
Kept(w) == \A i \in Aliases : w.rx[i].value = rx[i].value /\ w.emits[i] = 0

Commit(w0, l) ==
  \E w \in {w0} :
  \E l1 \in {[l EXCEPT !.ret = w.ret, !.threw = w.threw,
                         !.same = \A i \in RxIds : w.rx[i].value = rx[i].value,
                         !.lost = LostKey(w, l), !.kept = Kept(w),
                         !.differs = Differs(w, l), !.frozen = Frozen(w, l)]} :
  \E ord \in {Visit(w.heap, RootSeq(w.rx, l1, 1), <<>>)} :
     /\ heap' = Collect(w.heap, ord)
     /\ rx' = [i \in RxIds |-> [w.rx[i] EXCEPT !.value = MoveVal(ord, @)]]
     /\ emits' = w.emits
     /\ last' = [l1 EXCEPT !.arg = MoveVal(ord, @)]
     /\ UNCHANGED domVars

Stores  == {i \in RxIds : rx[i].kind = "store"}
Signals == {i \in RxIds : rx[i].kind = "signal"}
ValObj(i) == heap[rx[i].value.v]
IsArrStore(i) == ValObj(i).arr

\* the keys a caller reads or writes on store i
KeysFor(i) ==
  IF IsArrStore(i) THEN IdxKeys \cup {"length"}
  ELSE IF i = root THEN ObjKeys ELSE LeafKeys

\* the primitives a caller writes under key k of store i
PrimsFor(i, k) ==
  IF IsArrStore(i) THEN (IF k = "length" THEN {Num(n) : n \in 0..MaxLen} ELSE Elems)
  ELSE Prims

\* createStore(p), p not an object
CreatePrim ==
  /\ root = 0
  /\ \E p \in Prims \cup {Undef, Fn} :
       Commit(CreateStore(World(heap, rx), p), [NoCall EXCEPT !.op = "create", !.arg = p])
  /\ UNCHANGED root

\* createStore({...})
CreateWith(orders, choices) ==
  /\ root = 0
  /\ \E ks \in orders : \E d \in [1..Len(ks) -> choices] :
       /\ \A i \in DOMAIN d : d[i].c # "cur"
       /\ LeafCount(d) + 1 <= Cardinality(FreeAddrs(heap))
       /\ LET b == BuildObj(heap, NoObj, ks, d)
              w == CreateStore(World(b.heap, rx), b.v)
          IN /\ Commit(w, [NoCall EXCEPT !.op = "create", !.arg = b.v])
             /\ root' = IF w.threw THEN 0 ELSE FreeId(rx)
CreateObj == CreateWith(KeyOrders, FlatChoices)
CreateNested == CreateWith(NestedOrders, Choices)

\* createStore([...])
CreateArr ==
  /\ root = 0
  /\ \E vs \in ArrInputs :
       LET b == BuildArr(heap, vs)
           w == CreateStore(World(b.heap, rx), b.v)
       IN /\ Commit(w, [NoCall EXCEPT !.op = "create", !.arg = b.v])
          /\ root' = IF w.threw THEN 0 ELSE FreeId(rx)

\* s[k]  (a property read through the proxy)
Read ==
  /\ \E i \in Stores : \E k \in KeysFor(i) :
       /\ HasChild(rx[i], k) \/ FreeIds(rx) # {}
       /\ Commit(ProxyGet(World(heap, rx), i, k),
                 [NoCall EXCEPT !.op = "read", !.id = i, !.key = k, !.had = HasChild(rx[i], k)])
  /\ UNCHANGED root

\* s[k] = x
Write ==
  /\ \E i \in Stores : \E k \in KeysFor(i) : \E x \in PrimsFor(i, k) :
       /\ HasChild(rx[i], k) \/ FreeIds(rx) # {}
       /\ LET had == HasChild(rx[i], k)
              pre == IF had THEN ReactiveSet(World(heap, rx), ChildOf(rx[i], k), x)
                     ELSE World(heap, rx)
          IN Commit(ProxySet(World(heap, rx), i, k, x),
                    [NoCall EXCEPT !.op = "write", !.id = i, !.key = k, !.arg = x,
                                   !.had = had, !.cret = pre.ret])
  /\ UNCHANGED root

\* child.set(x) on a signal
SignalSetCall ==
  /\ \E i \in Signals : \E x \in (IF rx[i].wbT # 0 THEN PrimsFor(rx[i].wbT, rx[i].wbK) ELSE Prims) :
       Commit(SignalSet(World(heap, rx), i, x),
              [NoCall EXCEPT !.op = "sigset", !.id = i, !.arg = x])
  /\ UNCHANGED root

\* s.set(p), p not an object
SetPrim ==
  /\ \E i \in Stores : \E p \in {Num(0), Null} :
       Commit(StoreSet(World(heap, rx), i, p), [NoCall EXCEPT !.op = "set", !.id = i, !.arg = p])
  /\ UNCHANGED root

\* s.set(v => v)
SetSame ==
  /\ \E i \in Stores :
       Commit(StoreSet(World(heap, rx), i, rx[i].value),
              [NoCall EXCEPT !.op = "set", !.id = i, !.arg = rx[i].value])
  /\ UNCHANGED root

\* s.set({...})
SetWith(orders, choices) ==
  /\ \E i \in Stores :
       /\ ~IsArrStore(i)
       /\ \E ks \in (IF i = root THEN orders ELSE {<<>>, <<"x">>}) : \E d \in [1..Len(ks) -> choices] :
            /\ i # root => \A j \in DOMAIN d : d[j].c = "val"
            /\ \A j \in DOMAIN d : d[j].c = "cur" => IsObject(GetProp(ValObj(i), ks[j]))
            /\ LeafCount(d) + 1 <= Cardinality(FreeAddrs(heap))
            /\ LET b == BuildObj(heap, ValObj(i), ks, d)
               IN Commit(StoreSet(World(b.heap, rx), i, b.v),
                         [NoCall EXCEPT !.op = "set", !.id = i, !.arg = b.v])
  /\ UNCHANGED root
SetObj == SetWith(KeyOrders, FlatChoices)
SetNested == SetWith(NestedOrders, Choices)

\* s.set([...])
SetArr ==
  /\ \E i \in Stores :
       /\ IsArrStore(i)
       /\ FreeAddrs(heap) # {}
       /\ \E vs \in ArrInputs :
            LET b == BuildArr(heap, vs)
            IN Commit(StoreSet(World(b.heap, rx), i, b.v),
                      [NoCall EXCEPT !.op = "set", !.id = i, !.arg = b.v])
  /\ UNCHANGED root

\* s.set((array) => [...array, array.length])
SetAppend ==
  /\ \E i \in Stores :
       /\ IsArrStore(i)
       /\ ValObj(i).len < MaxLen
       /\ FreeAddrs(heap) # {}
       /\ LET b == BuildArr(heap, AppendLen(ValObj(i)))
          IN Commit(StoreSet(World(b.heap, rx), i, b.v),
                    [NoCall EXCEPT !.op = "set", !.id = i, !.arg = b.v, !.key = "length"])
  /\ UNCHANGED root

\* ===================================================================== DOM
\* Renderable values: [t, n, s, e].  n is the number of a "num", the truth
\* value (0/1) of a "bool" and the node id of a "node"; s the text of a
\* "str"; e the elements of an "arr".
MaxNodes   == 16  \* DOM nodes
MaxVLen    == 2   \* longest array value handed to toNode / updateDOM
MaxUpdates == 2   \* updateDOM calls after the first rendering

VNum(n)  == [t |-> "num", n |-> n, s |-> "", e |-> <<>>]
VStr(str) == [t |-> "str", n |-> 0, s |-> str, e |-> <<>>]
VBool(b) == [t |-> "bool", n |-> b, s |-> "", e |-> <<>>]
VUndef   == [t |-> "undef", n |-> 0, s |-> "", e |-> <<>>]
VNull    == [t |-> "null", n |-> 0, s |-> "", e |-> <<>>]
VObj     == [t |-> "obj", n |-> 0, s |-> "", e |-> <<>>]
VFn      == [t |-> "fn", n |-> 0, s |-> "", e |-> <<>>]
VNode(i) == [t |-> "node", n |-> i, s |-> "", e |-> <<>>]
VArr(es) == [t |-> "arr", n |-> 0, s |-> "", e |-> es]

\* Array.isArray(value)
IsArray(x) == x.t = "arr"
\* typeof value
VTypeOf(x) ==
  CASE x.t = "num"   -> "number"
    [] x.t = "str"   -> "string"
    [] x.t = "bool"  -> "boolean"
    [] x.t = "undef" -> "undefined"
    [] x.t = "fn"    -> "function"
    [] OTHER         -> "object"

\* "" + value, for the values that reach it
Digits == <<"0", "1", "2", "3">>
ToStr(x) ==
  CASE x.t = "num"   -> Digits[x.n + 1]
    [] x.t = "str"   -> x.s
    [] x.t = "bool"  -> (IF x.n = 1 THEN "true" ELSE "false")
    [] x.t = "undef" -> "undefined"
    [] x.t = "null"  -> "null"
    [] x.t = "fn"    -> "function () {}"
    [] x.t = "node"  -> "[object HTMLElement]"
    [] OTHER         -> "[object Object]"

NodeIds == 1..MaxNodes
NoNode  == [kind |-> "none", text |-> "", prop |-> VUndef]
\* the element the caller holds and may hand in as a value
Elem    == 1

\* An output: a single node (list = FALSE, ns of length 1) or a node list.
One(n)   == [list |-> FALSE, ns |-> <<n>>]
Many(ns) == [list |-> TRUE, ns |-> ns]

\* A DOM world: the node table, the children of the one parent element in
\* document order, the cleanup count of every node, the target array of the
\* running call (updateMany shifts it), and the call's outcome.
DWorld(t, k, c, tg) == [dom |-> t, kids |-> k, cleaned |-> c, tgt |-> tg,
                        res |-> Many(<<>>), threw |-> FALSE, log |-> <<>>]

FreeNodes(t) == {i \in NodeIds : t[i].kind = "none"}
FreeNode(t)  == CHOOSE i \in FreeNodes(t) : \A j \in FreeNodes(t) : i <= j

\* new Text(text) / new Comment(text): the world with the node, returned in res
NewNode(d, kind, text) ==
  LET i == FreeNode(d.dom)
  IN [d EXCEPT !.dom[i] = [kind |-> kind, text |-> text, prop |-> VUndef], !.res = One(i)]

\* node.parentNode is the parent element, or null
HasParent(d, n) == n \in SeqSet(d.kids)
Pos(k, n) == CHOOSE i \in 1..Len(k) : k[i] = n
Without(k, n) == SelectSeq(k, LAMBDA x : x # n)
InsertAt(k, i, n) == SubSeq(k, 1, i - 1) \o <<n>> \o SubSeq(k, i, Len(k))
\* node.nextSibling (0: null)
NextSibling(k, n) == IF Pos(k, n) < Len(k) THEN k[Pos(k, n) + 1] ELSE 0

\* parent.removeChild(n), n a child
RemoveChild(k, n) == Without(k, n)
\* parent.insertBefore(n, ref); ref = 0 appends.  n leaves its old place first.
InsertBefore(k, n, ref) ==
  LET r  == IF ref = n THEN NextSibling(k, n) ELSE ref
      k1 == Without(k, n)
  IN IF r = 0 THEN Append(k1, n) ELSE InsertAt(k1, Pos(k1, r), n)
\* parent.replaceChild(n, old), old a child
ReplaceChild(k, n, old) ==
  IF n = old THEN k
  ELSE LET k1 == Without(k, n)
       IN [i \in 1..Len(k1) |-> IF k1[i] = old THEN n ELSE k1[i]]

\* The log of a call: the children of the parent when replaceNode is entered
\* for node n ("replace") and when cleanup(n) is called ("cleanup").
Event(ev, n, k) == [ev |-> ev, n |-> n, at |-> k]
Enter(d, old) == [d EXCEPT !.log = Append(@, Event("replace", old, d.kids))]

\* cleanup(node)
Cleanup(d, n) == [d EXCEPT !.cleaned[n] = @ + 1,
                           !.log = Append(@, Event("cleanup", n, d.kids))]

\* ---------------------------------------------------------------- toNode
RECURSIVE ToNode(_, _)
RECURSIVE ToNodeEach(_, _, _)
RECURSIVE ToNodePush(_, _, _)

\* res.push(...node) / res.push(node), and the next element
ToNodePush(d1, es, res) == ToNodeEach(d1, Tail(es), res \o d1.res.ns)

\* for (const el of value) { ... }   res: the nodes collected so far
ToNodeEach(d, es, res) ==
  IF d.threw THEN d
  ELSE IF es = <<>> THEN [d EXCEPT !.res = Many(res)]
  ELSE ToNodePush(ToNode(d, Head(es)), es, res)

\* toNode without the marker for an array that yields no node
ToNodeBare(d, value) ==
  IF IsArray(value) THEN ToNodeEach(d, value.e, <<>>)
  ELSE IF value.t = "null" THEN NewNode(d, "comment", "")
  ELSE IF value.t = "node" THEN [d EXCEPT !.res = One(value.n)]
  ELSE IF VTypeOf(value) \in {"object", "function"} THEN [d EXCEPT !.threw = TRUE]
  ELSE NewNode(d, "text", ToStr(value))

\* return res.length ? res : new Comment("")
ArrayResult(d1) ==
  IF d1.threw THEN d1
  ELSE IF Len(d1.res.ns) # 0 THEN d1 ELSE NewNode(d1, "comment", "")

ToNode(d, value) ==
  IF IsArray(value) THEN ArrayResult(ToNodeEach(d, value.e, <<>>))
  ELSE IF value.t = "null" THEN NewNode(d, "comment", "")
  ELSE IF value.t = "node" THEN [d EXCEPT !.res = One(value.n)]
  ELSE IF VTypeOf(value) \in {"object", "function"} THEN [d EXCEPT !.threw = TRUE]
  ELSE NewNode(d, "text", ToStr(value))

\* how many nodes toNode(value) creates at most
RECURSIVE NodeNeed(_)
RECURSIVE NodeNeedEach(_)
NodeNeedEach(es) == IF es = <<>> THEN 0 ELSE NodeNeed(Head(es)) + NodeNeedEach(Tail(es))
NodeNeed(value) == IF IsArray(value) THEN NodeNeedEach(value.e) + 1 ELSE 1

\* ------------------------------------------------------------- updateDOM
\* for (const child of node) old.parentNode?.insertBefore(child, last)
RECURSIVE InsertAllBefore(_, _, _, _)
InsertAllBefore(d, ns, old, lastNode) ==
  IF ns = <<>> THEN d
  ELSE InsertAllBefore(
         IF HasParent(d, old) THEN [d EXCEPT !.kids = InsertBefore(@, Head(ns), lastNode)] ELSE d,
         Tail(ns), old, lastNode)

\* replaceNode(node, old)
ReplaceNode(d0, node, old) ==
  LET d == Enter(d0, old) IN
  IF ~node.list THEN
    LET d1 == IF HasParent(d, old) THEN [d EXCEPT !.kids = ReplaceChild(@, node.ns[1], old)] ELSE d
    IN [Cleanup(d1, old) EXCEPT !.res = node]
  ELSE IF node.ns = <<>> THEN [d EXCEPT !.threw = TRUE]
  ELSE
    LET lastNode == node.ns[Len(node.ns)]
        rest == SubSeq(node.ns, 1, Len(node.ns) - 1)
        d1   == IF HasParent(d, old) THEN [d EXCEPT !.kids = ReplaceChild(@, lastNode, old)] ELSE d
        d2   == Cleanup(d1, old)
    IN [InsertAllBefore(d2, rest, old, lastNode) EXCEPT !.res = node]

\* target.parentNode?.insertBefore(child, target.nextSibling), child by child
RECURSIVE InsertEachAfter(_, _, _)
InsertEachAfter(d, ns, tg) ==
  IF ns = <<>> THEN d
  ELSE InsertEachAfter(
         IF HasParent(d, tg)
         THEN [d EXCEPT !.kids = InsertBefore(@, Head(ns), NextSibling(d.kids, tg))]
         ELSE d,
         Tail(ns), tg)

\* insertAfter(node, target)
InsertAfter(d, node, tg) == InsertEachAfter(d, node.ns, tg)

\* node.nodeValue = value
NodeValue(x) == IF x.t = "null" THEN "" ELSE ToStr(x)

\* updateOwnerProperty(attr, value): the attribute was set on its owner under
\* the key recorded in attributeToProperty, so owner[prop] = value runs; prop
\* of the attribute's record holds the owner's property
UpdateOwnerProperty(d, attr, value) == [d EXCEPT !.dom[attr].prop = value]

\* replaceNode(node, old) once toNode has returned node in d1.res
ReplaceBy(d1, old) == IF d1.threw THEN d1 ELSE ReplaceNode(d1, d1.res, old)

\* return replaceNode(toNode(value), node)
Replace(d, value, node) == ReplaceBy(ToNode(d, value), node)

\* updateOne(node, value); the default of the switch is every case that
\* falls through to replaceNode(toNode(value), node)
UpdateOne(d, node, value) ==
  IF value.t = "node" /\ value.n = node THEN [d EXCEPT !.res = One(node)]
  ELSE IF IsArray(value) THEN Replace(d, value, node)
  ELSE CASE d.dom[node].kind = "attr" ->
              UpdateOwnerProperty([d EXCEPT !.dom[node].text = NodeValue(value),
                                            !.res = One(node)], node, value)
         [] d.dom[node].kind = "text" /\ VTypeOf(value) # "object" ->
              [d EXCEPT !.dom[node].text = NodeValue(value), !.res = One(node)]
         [] d.dom[node].kind = "comment" /\ value.t = "null" ->
              [d EXCEPT !.res = One(node)]
         [] OTHER -> Replace(d, value, node)

\* for (const node of nodes) parent.removeChild(node): throws on a node that
\* is not a child of parent
RECURSIVE RemoveAll(_, _)
RemoveAll(d, ns) ==
  IF d.threw \/ ns = <<>> THEN d
  ELSE IF HasParent(d, Head(ns))
       THEN RemoveAll([d EXCEPT !.kids = RemoveChild(@, Head(ns))], Tail(ns))
       ELSE [d EXCEPT !.threw = TRUE]

\* for (let i = 0; i < min; i++) { ... }
RECURSIVE UpdateEach(_, _, _, _)
RECURSIVE UpdatePush(_, _, _, _)
\* res.push(...updated) / res.push(updated), and the next position
UpdatePush(d1, ns, vs, res) == UpdateEach(d1, Tail(ns), Tail(vs), res \o d1.res.ns)
UpdateEach(d, ns, vs, res) ==
  IF d.threw THEN d
  ELSE IF ns = <<>> \/ vs = <<>> THEN [d EXCEPT !.res = Many(res)]
  ELSE UpdatePush(UpdateOne(d, Head(ns), Head(vs)), ns, vs, res)

\* for (let i = min; i < nodes.length; i++) nodes[i].parentNode?.removeChild(nodes[i])
RECURSIVE RemoveSurplus(_, _)
RemoveSurplus(d, ns) ==
  IF ns = <<>> THEN d
  ELSE RemoveSurplus(
         IF HasParent(d, Head(ns)) THEN [d EXCEPT !.kids = RemoveChild(@, Head(ns))] ELSE d,
         Tail(ns))

\* for (let i = min; i < value.length; i++) { ... }   res[res.length - 1] is
\* undefined when res is empty, and insertAfter then throws a TypeError
RECURSIVE InsertSurplus(_, _, _)
RECURSIVE InsertPush(_, _, _)
\* insertAfter(node, res[res.length - 1]); res.push(...)
InsertPush(d1, vs, res) ==
  IF d1.threw THEN d1
  ELSE IF res = <<>> THEN [d1 EXCEPT !.threw = TRUE]
  ELSE InsertSurplus(InsertAfter(d1, d1.res, res[Len(res)]), Tail(vs), res \o d1.res.ns)
InsertSurplus(d, vs, res) ==
  IF d.threw THEN d
  ELSE IF vs = <<>> THEN [d EXCEPT !.res = Many(res)]
  ELSE InsertPush(ToNode(d, Head(vs)), vs, res)

Min(a, b) == IF a <= b THEN a ELSE b

\* the second and third loop, res being d1.res
ShrinkOrGrow(d1, nodes, value, min) ==
  IF d1.threw THEN d1
  ELSE InsertSurplus(RemoveSurplus(d1, SubSeq(nodes, min + 1, Len(nodes))),
                     SubSeq(value.e, min + 1, Len(value.e)), d1.res.ns)

\* return replaceNode(toNode(value), first), the other nodes removed
Collapse(d2, value, first) == IF d2.threw THEN d2 ELSE Replace(d2, value, first)

\* updateMany(nodes, value); d.tgt is the nodes array.  A signal's value is
\* never the tracked array itself, so nodes === value is false.
UpdateMany(d, value) ==
  IF ~IsArray(value) THEN
    IF d.tgt = <<>> THEN [d EXCEPT !.threw = TRUE]      \* first is undefined
    ELSE
      LET first == Head(d.tgt)
          d1    == [d EXCEPT !.tgt = Tail(d.tgt)]       \* nodes.shift()
      IN IF ~HasParent(d1, first) THEN [d1 EXCEPT !.res = Many(d1.tgt)]
         ELSE Collapse(RemoveAll(d1, d1.tgt), value, first)
  ELSE
    LET min == Min(Len(value.e), Len(d.tgt))
    IN ShrinkOrGrow(UpdateEach(d, SubSeq(d.tgt, 1, min), SubSeq(value.e, 1, min), <<>>),
                    d.tgt, value, min)

\* updateDOM(target, value)
UpdateDOM(d, tg, value) ==
  IF tg.list THEN UpdateMany(d, value) ELSE UpdateOne(d, tg.ns[1], value)

\* ---------------------------------------------------------- DOM inputs
\* arrays of at most MaxVLen elements of S
ArraysOver(S) == UNION {{VArr(es) : es \in [1..n -> S]} : n \in 0..MaxVLen}

Leafs == {VNum(0), VNum(1), VStr("a"), VBool(1), VUndef, VNull, VObj, VFn, VNode(Elem)}
Nested == {VNum(1), VNode(Elem), VArr(<<>>), VArr(<<VNum(1)>>), VArr(<<VNull, VStr("a")>>),
           VArr(<<VObj>>), VArr(<<VArr(<<>>)>>)}
\* the values handed to toNode
Values == Leafs \cup ArraysOver(Leafs) \cup ArraysOver(Nested)

DLeafs == {VNum(1), VStr("a"), VNull, VObj, VNode(Elem)}
\* the values a rendered signal takes
DomValues == DLeafs \cup ArraysOver(DLeafs)
               \cup {VArr(<<VArr(<<>>)>>), VArr(<<VArr(<<VNum(1), VStr("a")>>)>>),
                     VArr(<<VNum(1), VArr(<<VNum(1), VStr("a")>>)>>)}

\* ---------------------------------------------------------- DOM actions
NoTarget == [list |-> FALSE, ns |-> <<>>]
\* no value
NoValue  == [t |-> "none", n |-> 0, s |-> "", e |-> <<>>]
\* The last DOM call: its value, the value the output rendered before it, the
\* output and the children before it, and its outcome.
NoDCall  == [op |-> "none", value |-> VUndef, prev |-> NoValue, tgt |-> NoTarget,
             kids0 |-> <<>>, dom0 |-> <<>>, ret |-> NoTarget, threw |-> FALSE, log |-> <<>>]
\* the value the tracked output renders
Rendered == IF dlast.op \in {"render", "renderAttr", "update"} /\ ~dlast.threw
            THEN dlast.value ELSE NoValue

DomInit ==
  /\ dom = [i \in NodeIds |-> IF i = Elem THEN [kind |-> "element", text |-> "", prop |-> VUndef]
                                       ELSE NoNode]
  /\ kids = <<>>
  /\ target = NoTarget
  /\ cleaned = [i \in NodeIds |-> 0]
  /\ dlast = NoDCall
  /\ updates = 0

\* The world a call starts in: nodes nothing refers to any more are collected.
Live == {Elem} \cup SeqSet(kids) \cup SeqSet(target.ns)
Start == DWorld([i \in NodeIds |-> IF i \in Live THEN dom[i] ELSE NoNode], kids,
                [i \in NodeIds |-> IF i \in Live THEN cleaned[i] ELSE 0], target.ns)
Room(value) == NodeNeed(value) + 2 <= Cardinality(FreeNodes(Start.dom))

\* fragment.append(node) for each node, then element.append(fragment)
RECURSIVE AppendAll(_, _)
AppendAll(k, ns) == IF ns = <<>> THEN k ELSE AppendAll(InsertBefore(k, Head(ns), 0), Tail(ns))

\* toNode(value)
ToNodeCall ==
  \E value \in Values :
    /\ Room(value)
    /\ \E d \in {ToNode(Start, value)} :
          /\ dom' = d.dom
          /\ dlast' = [NoDCall EXCEPT !.op = "toNode", !.value = value,
                                      !.ret = IF d.threw THEN NoTarget ELSE d.res,
                                      !.threw = d.threw]
    /\ UNCHANGED <<kids, target, cleaned, updates, storeVars>>

\* jsx("div", null, signal) or jsx("div", null, signal, "tail"): signalToJSX
\* puts the marker comment and the nodes of the signal's value in the
\* element and tracks the output
Render ==
  \E value \in DomValues, tail \in BOOLEAN :
    /\ target = NoTarget
    /\ Room(value)
    /\ \E d0 \in {NewNode(Start, "comment", "0-0")} :
       \E d1 \in {ToNode(d0, value)} :
       \E d2 \in {IF tail /\ ~d1.threw THEN NewNode(d1, "text", "tail") ELSE d1} :
          IF d1.threw
          THEN /\ dlast' = [NoDCall EXCEPT !.op = "render", !.value = value, !.threw = TRUE]
               /\ UNCHANGED <<dom, kids, target>>
          ELSE /\ dom' = d2.dom
               /\ kids' = AppendAll(<<>>, d0.res.ns \o d1.res.ns \o (IF tail THEN d2.res.ns ELSE <<>>))
               /\ target' = d1.res
               /\ dlast' = [NoDCall EXCEPT !.op = "render", !.value = value, !.ret = d1.res]
    /\ UNCHANGED <<cleaned, updates, storeVars>>

\* jsx("div", {key: signal}): the attribute node is the tracked output
RenderAttr ==
  \E value \in DLeafs :
    /\ target = NoTarget
    /\ \E d \in {NewNode(Start, "attr", NodeValue(value))} :
          /\ dom' = d.dom
          /\ target' = d.res
          /\ dlast' = [NoDCall EXCEPT !.op = "renderAttr", !.value = value, !.ret = d.res]
    /\ UNCHANGED <<kids, cleaned, updates, storeVars>>

\* The signal's value changes: updateDOM(target, value).  The tracked output
\* becomes what updateDOM returns; when it throws, the tracked array stays as
\* the call left it.
Update ==
  \E value \in DomValues :
    /\ target # NoTarget
    /\ updates < MaxUpdates
    /\ Room(value)
    /\ \E d \in {UpdateDOM(Start, target, value)} :
          /\ dom' = d.dom
          /\ kids' = d.kids
          /\ cleaned' = d.cleaned
          /\ target' = IF d.threw THEN [target EXCEPT !.ns = d.tgt] ELSE d.res
          /\ dlast' = [op |-> "update", value |-> value, prev |-> Rendered, tgt |-> target,
                       kids0 |-> kids, dom0 |-> Start.dom,
                       ret |-> IF d.threw THEN NoTarget ELSE d.res,
                       threw |-> d.threw, log |-> d.log]
    /\ updates' = updates + 1
    /\ UNCHANGED storeVars

\* --------------------------------------------------------- specifications
\* Object stores with primitive entries.
Init == StoreInit /\ DomInit
Next ==
  \/ CreatePrim \/ CreateObj
  \/ Read \/ Write \/ SignalSetCall
  \/ SetPrim \/ SetSame \/ SetObj
vars == <<storeVars, domVars>>
Spec == Init /\ [][Next]_vars

\* Object stores whose entries may be nested objects.
NestedNext ==
  \/ CreateNested
  \/ Read \/ SignalSetCall
  \/ SetPrim \/ SetSame \/ SetNested
SpecNested == Init /\ [][NestedNext]_vars

\* Array stores.
ArrNext ==
  \/ CreateArr
  \/ Read \/ Write \/ SignalSetCall
  \/ SetPrim \/ SetSame \/ SetArr \/ SetAppend
SpecArr == Init /\ [][ArrNext]_vars

\* Construction from every kind of value, and the first reads.
CreateNext == CreatePrim \/ CreateObj \/ CreateArr \/ Read
SpecCreate == Init /\ [][CreateNext]_vars

\* toNode on every kind of value.
ToNodeNext == ToNodeCall
SpecToNode == Init /\ [][ToNodeNext]_vars

\* A rendered signal and the updates of its output.
DomNext == Render \/ RenderAttr \/ Update
SpecDom == Init /\ [][DomNext]_vars

\* ---------------------------------------------------------------- claims
\* child c of store p was materialized by a property read: a nested store,
\* or a signal carrying the write-back listener for its key
ReadChild(p, c) ==
  \/ rx[c.id].kind = "store"
  \/ (rx[c.id].kind = "signal" /\ rx[c.id].wbT = p /\ rx[c.id].wbK = c.k)

\* signal i is the child its parent currently holds under the key it was read from
Attached(i) ==
  /\ rx[i].wbT # 0
  /\ HasChild(rx[rx[i].wbT], rx[i].wbK)
  /\ ChildOf(rx[rx[i].wbT], rx[i].wbK) = i

\* C1: downward write propagation.  After s.set(v) returns, every child that
\* was materialized by a read and whose key v owns reads v[k].
C1_DownwardPropagation ==
  (last.op = "set" /\ ~last.threw) =>
    \A c \in SeqSet(rx[last.id].children) :
      (ReadChild(last.id, c) /\ HasOwn(ValObj(last.id), c.k))
        => rx[c.id].value = GetProp(ValObj(last.id), c.k)

\* C2: upward write propagation.  After child.set(x) returns on a primitive
\* child still held under the key k it was read from, the child reads x and
\* s()[k] equals x.
C2_UpwardPropagation ==
  (last.op = "sigset" /\ Attached(last.id)) =>
    /\ rx[last.id].value = last.arg
    /\ GetProp(ValObj(rx[last.id].wbT), rx[last.id].wbK) = last.arg

\* C3: array stores.  After s.set(newArray) returns, a length child that was
\* materialized by a read reads newArray.length.
C3_LengthFollowsSet ==
  (/\ last.op = "set" /\ ~last.threw
   /\ HasChild(rx[last.id], "length")
   /\ ReadChild(last.id, [k |-> "length", id |-> ChildOf(rx[last.id], "length")]))
  => rx[ChildOf(rx[last.id], "length")].value = Num(ValObj(last.id).len)

\* C4: store/child consistency under proxy writes.  After s[k] = v returns,
\* s()[k] and s[k]() both equal v; and after a set on a child the proxy write
\* created, s()[k] equals s[k]().
C4_ProxyWriteConsistent ==
  /\ (last.op = "write" /\ ~last.threw) =>
       /\ GetProp(ValObj(last.id), last.key) = last.arg
       /\ rx[ChildOf(rx[last.id], last.key)].value = last.arg
  /\ (last.op = "sigset" /\ rx[last.id].wbT = 0) =>
       \A p \in Stores : \A c \in SeqSet(rx[p].children) :
         c.id = last.id => GetProp(ValObj(p), c.k) = rx[last.id].value

\* C5: every proxy property write that returns invoked the store's own
\* listeners exactly once, also when the delegated child set reported no change.
C5_ProxyWriteEmitsOnce ==
  (last.op = "write" /\ ~last.threw) => emits[last.id] = 1
C5_Witness ==
  /\ last.op = "write" /\ ~last.threw
  /\ last.had /\ ~last.cret
  /\ emits[last.id] = 1

\* C6: a store.set(v) that returns has replaced the underlying value
\* reference by v and invoked the store's own listeners once if it returned
\* true and not at all if it returned false.
C6_SetReplacesAndEmitsOnce ==
  (last.op = "set" /\ ~last.threw) =>
    /\ rx[last.id].value = last.arg
    /\ emits[last.id] = (IF last.ret THEN 1 ELSE 0)
C6_Witness ==
  /\ last.op = "set" /\ ~last.threw /\ last.ret
  /\ emits[last.id] = 1
  /\ \E c \in SeqSet(rx[last.id].children) : emits[c.id] >= 1

\* C7: a store.set that throws has changed no underlying value reference and
\* invoked no listener.
C7_ThrowLeavesNoMutation ==
  (last.op = "set" /\ last.threw) =>
    /\ last.same
    /\ \A i \in RxIds : emits[i] = 0

\* C8: createStore(v) throws exactly when v is not an object or is null, and
\* then creates no store; otherwise the result is a store over v that
\* satisfies isSignal.
C8_CreateStore ==
  (last.op = "create") =>
    /\ last.threw <=> ~IsObject(last.arg)
    /\ last.threw => (root = 0 /\ \A i \in RxIds : rx[i].kind = "none")
    /\ ~last.threw => (root # 0 /\ rx[root].kind = "store" /\ IsSignal(rx[root])
                        /\ rx[root].value = last.arg)
C8_Witness ==
  /\ last.op = "create" /\ ~last.threw
  /\ root # 0 /\ IsSignal(rx[root]) /\ ValObj(root).arr

\* an object that is neither array nor node, anywhere in the value
RECURSIVE HasObject(_)
HasObject(x) ==
  IF IsArray(x) THEN \E i \in 1..Len(x.e) : HasObject(x.e[i]) ELSE x.t = "obj"

IsPrimitive(x) == x.t \in {"num", "str", "bool", "undef"}
IsMarker(n) == dom[n].kind = "comment" /\ dom[n].text = ""

\* C9: toNode never returns an empty sequence: the result is a single node or
\* a non-empty sequence of nodes; [] and null each give one empty marker
\* node, a node passes through unchanged, a primitive gives a text node of
\* its string form, and an object that is neither array nor node anywhere in
\* the input makes the call throw.
C9_ToNodeNeverEmpty ==
  dlast.op = "toNode" =>
    LET v == dlast.value
        r == dlast.ret
    IN /\ HasObject(v) => dlast.threw
       /\ ~dlast.threw =>
            /\ Len(r.ns) >= 1
            /\ ~r.list => Len(r.ns) = 1
            /\ \A i \in 1..Len(r.ns) : dom[r.ns[i]].kind \in {"text", "comment", "element"}
            /\ (v = VArr(<<>>) \/ v = VNull) => ~r.list /\ IsMarker(r.ns[1])
            /\ v.t = "node" => r = One(v.n) /\ dom[v.n].kind = "element"
            /\ IsPrimitive(v) =>
                 /\ ~r.list
                 /\ dom[r.ns[1]] = [kind |-> "text", text |-> ToStr(v), prop |-> VUndef]
                 /\ r.ns[1] # Elem

\* toNode returned for an array that holds an empty array
C9_Witness ==
  /\ dlast.op = "toNode"
  /\ dlast.value = VArr(<<VArr(<<>>), VArr(<<VArr(<<>>)>>)>>)
  /\ ~dlast.threw
  /\ Len(dlast.ret.ns) = 2

\* C10: for a node-list target and an array value of any length, the empty
\* array included, updateDOM returns a non-empty sequence whose length is
\* the length of the value.
C10_ListResultLength ==
  (dlast.op = "update" /\ dlast.tgt.list /\ IsArray(dlast.value) /\ ~dlast.threw) =>
    /\ dlast.ret.list
    /\ Len(dlast.ret.ns) >= 1
    /\ Len(dlast.ret.ns) = Len(dlast.value.e)


\* ns are distinct nodes that sit next to each other, in this order, in k
Distinct(ns) == \A i, j \in 1..Len(ns) : i # j => ns[i] # ns[j]
Consecutive(k, ns) ==
  \E p \in 0..Len(k) : p + Len(ns) <= Len(k) /\ SubSeq(k, p + 1, p + Len(ns)) = ns
AttachedList(k, ns) == Len(ns) >= 1 /\ Distinct(ns) /\ Consecutive(k, ns)

\* the last call reconciled an attached list of m nodes against an array of
\* n elements and returned, the nodes of the common positions being kept
ListCall(m, n) ==
  /\ dlast.op = "update" /\ ~dlast.threw
  /\ dlast.tgt.list /\ IsArray(dlast.value)
  /\ Len(dlast.tgt.ns) = m /\ Len(dlast.value.e) = n
  /\ AttachedList(dlast.kids0, dlast.tgt.ns)
  /\ LET min == IF m <= n THEN m ELSE n
     IN Len(dlast.ret.ns) >= min
        /\ SubSeq(dlast.ret.ns, 1, min) = SubSeq(dlast.tgt.ns, 1, min)

\* C11: node-list grow/shrink.  Reconciling an attached list of m nodes
\* against an array of n > m elements inserts exactly n - m nodes right after
\* the last existing node, in the order of the value (the order of the
\* returned list), the first m nodes staying in place; with 1 <= n < m the
\* m - n trailing nodes are removed from the tree and exactly n nodes are left.
C11_GrowShrink ==
  \A m \in 1..(2 * MaxVLen), n \in 1..MaxVLen :
    ListCall(m, n) =>
      LET old  == dlast.tgt.ns
          k0   == dlast.kids0
          ret  == dlast.ret.ns
          p    == Pos(k0, old[m])
      IN /\ n > m =>
              /\ Len(ret) = n
              /\ kids = SubSeq(k0, 1, p) \o SubSeq(ret, m + 1, Len(ret)) \o SubSeq(k0, p + 1, Len(k0))
         /\ n < m =>
              /\ Len(ret) = n
              /\ kids = SelectSeq(k0, LAMBDA x : x \notin {old[i] : i \in (n + 1)..m})


\* C12: node-list reconciliation idempotence.  Updating an attached list
\* output with the array value it already renders returns the same nodes in
\* the same order and leaves the children of the parent as they were.
C12_ListIdempotent ==
  (/\ dlast.op = "update" /\ dlast.tgt.list
   /\ AttachedList(dlast.kids0, dlast.tgt.ns)
   /\ IsArray(dlast.value) /\ dlast.prev = dlast.value)
  => /\ ~dlast.threw
     /\ dlast.ret = dlast.tgt
     /\ kids = dlast.kids0


\* C13: replacement ordering.  Whenever an attached node is replaced, cleanup
\* is invoked for it exactly once, with the node already detached and before
\* any new node is inserted: when cleanup runs, the children of the parent
\* are the children at the start of the replacement without the old node.
C13_CleanupBeforeInsert ==
  dlast.op = "update" =>
    \A i \in 1..Len(dlast.log) :
      (dlast.log[i].ev = "replace" /\ dlast.log[i].n \in SeqSet(dlast.log[i].at)) =>
        /\ i < Len(dlast.log)
        /\ dlast.log[i + 1] = Event("cleanup", dlast.log[i].n,
                                    Without(dlast.log[i].at, dlast.log[i].n))
        /\ cleaned[dlast.log[i].n] = 1


\* k with the node old replaced by the nodes ns
Spliced(k, old, ns) == SubSeq(k, 1, Pos(k, old) - 1) \o ns \o SubSeq(k, Pos(k, old) + 1, Len(k))

\* C14: multi-node replacement.  When an attached single node is updated
\* with an array that converts to k >= 2 nodes, the k nodes are afterwards
\* children of the old node's parent, next to each other at the old node's
\* position and in the order of the returned list; and the nodes of a
\* surplus element of a list update follow the anchor in the order of the
\* returned list.
C14_MultiNodeReplacement ==
  /\ (/\ dlast.op = "update" /\ ~dlast.threw /\ ~dlast.tgt.list
      /\ dlast.tgt.ns[1] \in SeqSet(dlast.kids0)
      /\ IsArray(dlast.value) /\ dlast.ret.list /\ Len(dlast.ret.ns) >= 2)
     => kids = Spliced(dlast.kids0, dlast.tgt.ns[1], dlast.ret.ns)
  /\ \A m \in 1..(2 * MaxVLen), n \in 1..MaxVLen :
       (ListCall(m, n) /\ n > m) =>
         LET p == Pos(dlast.kids0, dlast.tgt.ns[m])
         IN SubSeq(kids, p + 1, p + Len(dlast.ret.ns) - m)
              = SubSeq(dlast.ret.ns, m + 1, Len(dlast.ret.ns))


\* C15: a node-list target and a value that is no array.  The list collapses
\* to its first node, the other old nodes leave the tree, and the first node
\* is updated as a single node: a text node keeps its identity and takes the
\* text of a primitive value, an empty marker stays for null.  The result is
\* never an empty sequence, attached list or not.
C15_CollapseToFirst ==
  (/\ dlast.op = "update" /\ ~dlast.threw
   /\ dlast.tgt.list /\ Len(dlast.tgt.ns) >= 1 /\ ~IsArray(dlast.value))
  => LET first == dlast.tgt.ns[1]
         v     == dlast.value
     IN /\ Len(dlast.ret.ns) >= 1
        /\ AttachedList(dlast.kids0, dlast.tgt.ns) =>
             /\ \A i \in 2..Len(dlast.tgt.ns) : dlast.tgt.ns[i] \notin SeqSet(kids)
             /\ (dom[first].kind = "text" /\ IsPrimitive(v)) =>
                  /\ dlast.ret.ns = <<first>>
                  /\ dom[first].text = ToStr(v)
                  /\ first \in SeqSet(kids)
             /\ (IsMarker(first) /\ v = VNull) =>
                  /\ dlast.ret.ns = <<first>>
                  /\ first \in SeqSet(kids)


\* C16: reconciliation is atomic on an invalid renderable.  Whenever
\* updateDOM throws because the value or one of its elements is an object
\* that is neither array nor node, the children of the parent, the nodes
\* and the tracked node list are as before the call.
C16_ThrowIsAtomic ==
  (dlast.op = "update" /\ dlast.threw /\ HasObject(dlast.value)) =>
    /\ kids = dlast.kids0
    /\ target = dlast.tgt
    /\ \A n \in SeqSet(dlast.kids0) \cup SeqSet(dlast.tgt.ns) : dom[n] = dlast.dom0[n]
    /\ dlast.log = <<>>


\* how often the last call invoked cleanup for node n
Cleanups(n) == Cardinality({i \in 1..Len(dlast.log) : dlast.log[i].ev = "cleanup" /\ dlast.log[i].n = n})

\* C17: every node that reconciliation detaches from the tree has its
\* cleanup invoked exactly once, a replaced node as well as the trailing
\* nodes removed when a list shrinks or collapses to its first node.
C17_DetachedIsCleaned ==
  (dlast.op = "update" /\ ~dlast.threw) =>
    \A n \in SeqSet(dlast.kids0) \ SeqSet(kids) : Cleanups(n) = 1


\* C18: key removal.  When s.set(v) completes and v does not own the key of a
\* materialized child, the call returns true and no child is left for a key v
\* does not own; a read of a key that the value lacks and that has no child
\* resolves to nothing; a read that materializes a child gives it the
\* current entry; and neither set nor read on a store writes or notifies a
\* captured alias of it.
C18_KeyRemoval ==
  /\ (last.op = "set" /\ ~last.threw /\ last.lost) =>
        /\ last.ret
        /\ \A k \in SeqSet(ChildKeys(rx[last.id])) : HasOwn(ValObj(last.id), k)
  /\ (last.op = "read" /\ ~HasChild(rx[last.id], last.key)) =>
        ~last.ret /\ ~HasProp(ValObj(last.id), last.key)
  /\ (last.op = "read" /\ ~last.had /\ last.ret) =>
        /\ ChildOf(rx[last.id], last.key) \notin Aliases
        /\ rx[ChildOf(rx[last.id], last.key)].value = GetProp(ValObj(last.id), last.key)
  /\ (last.op \in {"set", "read"} /\ ~last.threw /\ last.id \notin Aliases) => last.kept
\* a child was dropped, the key came back, a fresh child was read, and the
\* store was then set again while the alias still holds its old value
C18_Witness ==
  /\ last.op = "set" /\ ~last.threw /\ last.ret
  /\ \E i \in Aliases :
       /\ rx[i].wbT = last.id
       /\ HasChild(rx[last.id], rx[i].wbK)
       /\ rx[ChildOf(rx[last.id], rx[i].wbK)].value # rx[i].value

\* C19: change detection for never-materialized keys.  store.set(v) returns
\* true exactly when v and the previous underlying object differ in an own
\* key (added, removed, or entry not identical).
C19_ChangeDetection ==
  (last.op = "set" /\ ~last.threw /\ last.arg.t = "ref") =>
     /\ (last.ret <=> last.differs)
     /\ emits[last.id] = (IF last.differs THEN 1 ELSE 0)

\* C20: store.set(v) leaves the previously held underlying object with the
\* keys and entries it had before the call.
C20_OldValueUntouched ==
  (last.op = "set" /\ ~last.threw) => last.frozen
====
